---- MODULE Spec2Model ----
(***************************************************************************)
(* Room availability and booking admission of the hotel-booking backend.   *)
(*                                                                         *)
(* The store holds rooms (hotel, price, quantity), bookings (room, user,   *)
(* date range, price) and room/facility associations.  The availability    *)
(* query rooms_ids_for_booking counts, per room, the bookings that overlap *)
(* a date range and keeps the rooms with quantity - count > 0.  A booking  *)
(* request reads the room, runs that query scoped to the room's hotel,     *)
(* inserts the row when the room is in the result and commits.             *)
(*                                                                         *)
(* Spec     : requests run one after the other, each to completion.        *)
(* SpecConc : NumReq booking requests run concurrently, one step per       *)
(*            database round trip, each in its own READ COMMITTED session. *)
(***************************************************************************)
EXTENDS Integers, FiniteSets, Sequences, TLC

(* ------------------------------- bounds -------------------------------- *)

MaxDay == 4          \* calendar days are 1..MaxDay
MaxQty == 2          \* room quantities are drawn from 1..MaxQty
MaxBookings == 2     \* at most this many booking rows are ever inserted
NumReq == 2          \* concurrent booking requests in SpecConc

Days == 1..MaxDay

\* Date ranges a request may carry: date_from < date_to (request validation
\* is upstream of the handlers modelled here).
Ranges == {rng \in Days \X Days : rng[1] < rng[2]}

HotelIds == {1, 2}
NoHotel == 0         \* hotel_id = None
RoomIds == {1, 2, 3} \* ids a request may name; room 3 is stored only once a room is created
UserIds == {1}
FacilityIds == {1, 2}    \* rows of the facilities table
BookingIds == 1..MaxBookings
ReqIds == 1..NumReq

VARIABLES
    rooms,            \* rooms table: id -> [hotel_id, price, quantity]
    room_facilities,  \* room_facilities table: set of [room_id, facility_id]
    bookings,         \* committed rows of the bookings table
    next_id,          \* next value of the bookings id sequence
    last,             \* the most recent sequential request and its response
    prev,             \* the committed store before the most recent request
    reqs,             \* in-flight concurrent requests (SpecConc)
    search,           \* the most recent hotel or room search and its response
    session,          \* the session of the most recent room edit: its statements
    hotels,           \* hotels table: id -> [title, location]
    facilities,       \* facilities table: set of [id, title]
    users,            \* users table: set of [id, email]
    cache             \* response cache of the hotel search: set of [key, rows]

vars == <<rooms, room_facilities, bookings, next_id, last, prev, reqs, search, session,
          hotels, facilities, users, cache>>

\* The committed store, as a request finds it.
Store == [bookings |-> bookings, rooms |-> rooms, room_facilities |-> room_facilities]

(* ------------------------- availability query -------------------------- *)

\* Mutant: only bookings that contain the whole query range are counted.
OverlapsContainingOnly(b, date_from, date_to) ==
    b.date_from <= date_from /\ b.date_to >= date_to

\* Mutant: the comparison is strict on both ends.
OverlapsStrict(b, date_from, date_to) ==
    b.date_from < date_to /\ b.date_to > date_from

\* The filter of the rooms_count CTE.
Overlaps(b, date_from, date_to) ==
    b.date_from <= date_to /\ b.date_to >= date_from

\* count(*) ... group by room_id, coalesced to 0 by the outer join.
rooms_booked(bks, room_id, date_from, date_to) ==
    Cardinality({b \in bks : b.room_id = room_id /\ Overlaps(b, date_from, date_to)})

rooms_left(rms, bks, room_id, date_from, date_to) ==
    rms[room_id].quantity - rooms_booked(bks, room_id, date_from, date_to)

\* Mutant: a room with no unit left still passes the filter.
HasRoomsLeftOffByOne(n) == n >= 0

\* rooms_left_table.c.rooms_left > 0
HasRoomsLeft(n) == n > 0

\* select id from rooms [where hotel_id = :hotel_id]
rooms_ids_for_hotel(rms, hotel_id) ==
    {r \in DOMAIN rms : hotel_id = NoHotel \/ rms[r].hotel_id = hotel_id}

\* Mutant: the hotel restriction is dropped.
rooms_ids_for_booking_any_hotel(rms, bks, date_from, date_to, hotel_id) ==
    {r \in DOMAIN rms : HasRoomsLeft(rooms_left(rms, bks, r, date_from, date_to))}

rooms_ids_for_booking(rms, bks, date_from, date_to, hotel_id) ==
    {r \in DOMAIN rms :
        /\ HasRoomsLeft(rooms_left(rms, bks, r, date_from, date_to))
        /\ r \in rooms_ids_for_hotel(rms, hotel_id)}

(* --------------------------- booking admission ------------------------- *)

\* Mutant: the booking is priced independently of the room.
BookingAddWithoutRoomPrice(id, user_id, room_data, room_id, date_from, date_to) ==
    [id |-> id, room_id |-> room_id, user_id |-> user_id,
     date_from |-> date_from, date_to |-> date_to, price |-> 0]

\* BookingAdd(user_id, price = room price, room_id, date_from, date_to)
BookingAdd(id, user_id, room_data, room_id, date_from, date_to) ==
    [id |-> id, room_id |-> room_id, user_id |-> user_id,
     date_from |-> date_from, date_to |-> date_to, price |-> room_data.price]

\* add_booking's check: room_id in rooms_ids_db
Admits(rms, bks, hotel_id, room_id, date_from, date_to) ==
    room_id \in rooms_ids_for_booking(rms, bks, date_from, date_to, hotel_id)

NoRequest ==
    [op |-> "none", room_id |-> 0, hotel_id |-> NoHotel, date_from |-> 0,
     date_to |-> 0, booking_id |-> 0, error |-> "none", status |-> 0, result |-> {},
     user_id |-> 0]

\* A request and its outcome; result is the row set the availability query
\* returned to the request (rooms_ids_db), {} when the query did not run.
Response(op, room_id, hotel_id, date_from, date_to, booking_id, error, status, result, user_id) ==
    [op |-> op, room_id |-> room_id, hotel_id |-> hotel_id, date_from |-> date_from,
     date_to |-> date_to, booking_id |-> booking_id, error |-> error,
     status |-> status, result |-> result, user_id |-> user_id]

\* Mutant: the row is inserted before the availability check rejects.
AddBookingInsertFirst(bks, id, user_id, rms, room_id, date_from, date_to) ==
    bks \cup {BookingAdd(id, user_id, rms[room_id], room_id, date_from, date_to)}

\* BookingsRepository.add_booking on the committed rows bks: the rows after the call.
AddBooking(bks, id, user_id, rms, room_id, date_from, date_to) ==
    IF Admits(rms, bks, rms[room_id].hotel_id, room_id, date_from, date_to)
    THEN bks \cup {BookingAdd(id, user_id, rms[room_id], room_id, date_from, date_to)}
    ELSE bks

\* The rest of a booking request once the room was found: add_booking raises
\* HTTPException(404) when the room is not in the available set, else the row
\* is inserted and the session committed.
FinishCreate(room_id, date_from, date_to, user_id) ==
    LET hotel_id == rooms[room_id].hotel_id
        rooms_ids_db == rooms_ids_for_booking(rooms, bookings, date_from, date_to, hotel_id)
    IN  IF Admits(rooms, bookings, hotel_id, room_id, date_from, date_to)
        THEN /\ next_id <= MaxBookings
             /\ bookings' = AddBooking(bookings, next_id, user_id, rooms, room_id,
                                       date_from, date_to)
             /\ next_id' = next_id + 1
             /\ last' = Response("create_booking", room_id, hotel_id, date_from, date_to,
                                 next_id, "none", 200, rooms_ids_db, user_id)
        ELSE /\ bookings' = AddBooking(bookings, next_id, user_id, rooms, room_id,
                                       date_from, date_to)
             /\ next_id' = next_id
             /\ last' = Response("create_booking", room_id, hotel_id, date_from, date_to,
                                 0, "HTTPException", 404, rooms_ids_db, user_id)

\* POST /bookings (api/bookings.py).  rooms.get_one raises ObjectNotFoundException
\* for a missing room; the handler catches only RoomNotFoundException, so the
\* exception leaves the handler and the response is a 500.
ApiCreateBooking(room_id, date_from, date_to, user_id) ==
    /\ prev' = Store
    /\ IF room_id \notin DOMAIN rooms
       THEN /\ last' = Response("create_booking", room_id, NoHotel, date_from, date_to,
                                0, "ObjectNotFoundException", 500, {}, user_id)
            /\ UNCHANGED <<bookings, next_id, search, session, hotels, facilities, users, cache>>
       ELSE FinishCreate(room_id, date_from, date_to, user_id)
    /\ UNCHANGED <<rooms, room_facilities, reqs, search, session, hotels, facilities, users, cache>>

\* BookingService.create_booking.  get_room_with_check turns ObjectNotFoundException
\* into RoomNotFoundException, which leaves the service (status 0: no response is
\* produced by the service itself).
ServiceCreateBooking(room_id, date_from, date_to, user_id) ==
    /\ prev' = Store
    /\ IF room_id \notin DOMAIN rooms
       THEN /\ last' = Response("create_booking", room_id, NoHotel, date_from, date_to,
                                0, "RoomNotFoundException", 0, {}, user_id)
            /\ UNCHANGED <<bookings, next_id, search, session, hotels, facilities, users, cache>>
       ELSE FinishCreate(room_id, date_from, date_to, user_id)
    /\ UNCHANGED <<rooms, room_facilities, reqs, search, session, hotels, facilities, users, cache>>

\* Mutant: the delete statement is never committed.
DeleteBookingUncommitted(booking_id) ==
    /\ prev' = Store
    /\ bookings' = bookings
    /\ last' = Response("delete_booking", 0, NoHotel, 0, 0, booking_id, "none", 200, {}, 0)
    /\ UNCHANGED <<rooms, room_facilities, next_id, reqs, search, session, hotels, facilities, users, cache>>

\* db.bookings.delete(id = booking_id) followed by session_commit: the rows
\* matching the filter are removed, none matching is not an error.
DeleteBooking(booking_id) ==
    /\ prev' = Store
    /\ bookings' = {b \in bookings : b.id # booking_id}
    /\ last' = Response("delete_booking", 0, NoHotel, 0, 0, booking_id, "none", 200, {}, 0)
    /\ UNCHANGED <<rooms, room_facilities, next_id, reqs, search, session, hotels, facilities, users, cache>>

\* The availability query as the hotel search runs it: over a date range with
\* no hotel restriction (rooms_ids_for_booking(date_from, date_to)).
CheckAvailability(date_from, date_to) ==
    /\ prev' = Store
    /\ last' = Response("check_availability", 0, NoHotel, date_from, date_to, 0, "none", 200,
                        rooms_ids_for_booking(rooms, bookings, date_from, date_to, NoHotel), 0)
    /\ UNCHANGED <<rooms, room_facilities, bookings, next_id, reqs, search, session, hotels, facilities, users, cache>>

\* rooms_ids_for_booking(date_from, date_to, hotel_id) called with any pair of
\* dates and an optional hotel, as a caller of the function may.
QueryAvailability(date_from, date_to, hotel_id) ==
    /\ prev' = Store
    /\ last' = Response("rooms_ids_for_booking", 0, hotel_id, date_from, date_to, 0,
                        "none", 200,
                        rooms_ids_for_booking(rooms, bookings, date_from, date_to, hotel_id), 0)
    /\ UNCHANGED <<rooms, room_facilities, bookings, next_id, reqs, search, session, hotels, facilities, users, cache>>

(* ------------------------- request validation ------------------------- *)

\* Mutant: a request with date_from = date_to passes validation.
BookingAddRequestValidOrEqual(date_from, date_to) == date_from <= date_to

\* BookingAddRequest, the request body of POST /bookings: it is valid when
\* date_from < date_to.
BookingAddRequestValid(date_from, date_to) == date_from < date_to

\* POST /bookings with any pair of dates: the body is validated against
\* BookingAddRequest before the handler is called; an invalid body is answered
\* with 422 and the handler (room lookup, availability query, insert) never runs.
PostBooking(room_id, date_from, date_to, user_id) ==
    IF BookingAddRequestValid(date_from, date_to)
    THEN ApiCreateBooking(room_id, date_from, date_to, user_id)
    ELSE /\ prev' = Store
         /\ last' = Response("create_booking", room_id, NoHotel, date_from, date_to,
                             0, "RequestValidationError", 422, {}, user_id)
         /\ UNCHANGED <<rooms, room_facilities, bookings, next_id, reqs, search, session, hotels, facilities, users, cache>>

(* ------------------------ facility reconciliation ---------------------- *)

MaxTarget == 2       \* a facilities_ids list holds at most this many ids

\* Ids a facilities_ids list may name; id 3 is not a row of facilities.
TargetIds == FacilityIds \cup {3}

\* facilities_ids: list[int] | None
NoneIds == [is_none |-> TRUE, ids |-> <<>>]
ListIds(ids) == [is_none |-> FALSE, ids |-> ids]
FacilitiesIdsValues ==
    {NoneIds} \cup {ListIds(ids) : ids \in UNION {[1..n -> TargetIds] : n \in 0..MaxTarget}}

\* set(new_facilities_ids)
ToSet(ids) == {ids[i] : i \in DOMAIN ids}

\* select facility_id from room_facilities where room_id = :room_id
current_facilities_ids(rf, room_id) ==
    {row.facility_id : row \in {r \in rf : r.room_id = room_id}}

\* Mutant: every current association is deleted, the ones in the list too.
ids_to_delete_all(rf, facilities_ids, room_id) ==
    IF facilities_ids.is_none
    THEN {}
    ELSE current_facilities_ids(rf, room_id)

ids_to_delete(rf, facilities_ids, room_id) ==
    IF facilities_ids.is_none
    THEN {}
    ELSE current_facilities_ids(rf, room_id) \ ToSet(facilities_ids.ids)

\* Mutant: every id of the list is inserted, the ones already associated too.
ids_to_insert_all(rf, facilities_ids, room_id) ==
    IF facilities_ids.is_none
    THEN {}
    ELSE ToSet(facilities_ids.ids)

ids_to_insert(rf, facilities_ids, room_id) ==
    IF facilities_ids.is_none
    THEN {}
    ELSE ToSet(facilities_ids.ids) \ current_facilities_ids(rf, room_id)

\* Mutant: the delete statement is not restricted to the room.
DeleteStmtAnyRoom(rf, room_id, ids) ==
    {r \in rf : r.facility_id \notin ids}

\* delete from room_facilities where room_id = :room_id and facility_id in :ids
DeleteStmt(rf, room_id, ids) ==
    {r \in rf : ~(r.room_id = room_id /\ r.facility_id \in ids)}

\* insert into room_facilities values (room_id, fid) for fid in ids
InsertStmt(rf, room_id, ids) ==
    rf \cup {[room_id |-> room_id, facility_id |-> fid] : fid \in ids}

\* The foreign keys of room_facilities (rooms.id, facilities.id): the insert
\* statement fails when a row would reference a missing room or facility.
InsertViolatesForeignKey(rms, room_id, ids) ==
    room_id \notin DOMAIN rms \/ ~(ids \subseteq FacilityIds)

\* RoomFacilitiesRepository.edit_room_with_facilities(data, room_id) run on the
\* rows rf of its session: the rows after it, the statements it executed and
\* the exception it raised.  A statement is executed only for a non-empty set.
edit_room_with_facilities(rms, rf, facilities_ids, room_id) ==
    LET to_delete == ids_to_delete(rf, facilities_ids, room_id)
        to_insert == ids_to_insert(rf, facilities_ids, room_id)
        after_delete == IF to_delete # {} THEN DeleteStmt(rf, room_id, to_delete) ELSE rf
        delete_stmts == IF to_delete # {} THEN <<"delete">> ELSE <<>>
    IN  IF to_insert = {}
        THEN [rows |-> after_delete, stmts |-> delete_stmts, error |-> "none"]
        ELSE IF InsertViolatesForeignKey(rms, room_id, to_insert)
             THEN [rows |-> after_delete, stmts |-> delete_stmts \o <<"insert">>,
                   error |-> "IntegrityError"]
             ELSE [rows |-> InsertStmt(after_delete, room_id, to_insert),
                   stmts |-> delete_stmts \o <<"insert">>, error |-> "none"]

NoSession ==
    [op |-> "none", hotel_id |-> NoHotel, room_id |-> 0, facilities_ids |-> NoneIds,
     given |-> FALSE, stmts |-> <<>>, error |-> "none", committed |-> FALSE,
     again |-> FALSE]

\* A room edit and how its session ended: the facilities_ids it carried (given:
\* the field was present in the request), the statements executed on
\* room_facilities, the exception raised, whether the session was committed,
\* and (again) whether it repeats the committed edit right before it: the same
\* operation on the same room with the same facilities_ids.
Session(op, hotel_id, room_id, facilities_ids, given, stmts, error, committed) ==
    [op |-> op, hotel_id |-> hotel_id, room_id |-> room_id,
     facilities_ids |-> facilities_ids, given |-> given, stmts |-> stmts,
     error |-> error, committed |-> committed,
     again |-> /\ session.committed /\ session.op = op /\ session.room_id = room_id
               /\ session.given = given /\ session.facilities_ids = facilities_ids]

\* edit_room_with_facilities called as its signature states (data carrying
\* facilities_ids, room_id), then session_commit; an exception leaves the
\* session uncommitted and its statements are rolled back.
ReconcileRoomFacilities(room_id, facilities_ids) ==
    LET call == edit_room_with_facilities(rooms, room_facilities, facilities_ids, room_id)
    IN  /\ prev' = Store
        /\ room_facilities' = IF call.error = "none" THEN call.rows ELSE room_facilities
        /\ session' = Session("reconcile", NoHotel, room_id, facilities_ids, TRUE,
                              call.stmts, call.error, call.error = "none")
        /\ UNCHANGED <<rooms, bookings, next_id, last, reqs, search, hotels, facilities, users, cache>>

(* ------------------------------ initial state -------------------------- *)

\* The seeded store: room 1 in hotel 1, room 2 in hotel 2; room id 3 is not stored.
RoomHotel(room_id) == IF room_id = 1 THEN 1 ELSE 2
RoomPrice(room_id) == 100 * room_id
StoredRooms == {1, 2}

NoSearch ==
    [op |-> "none", hotel_id |-> NoHotel, date_from |-> 0, date_to |-> 0,
     title |-> <<>>, location |-> <<>>, page |-> 0, per_page |-> 0,
     status |-> 0, rows |-> <<>>, query_ran |-> FALSE, is_none |-> FALSE]

IdleReq ==
    [pc |-> "idle", room_id |-> 0, date_from |-> 0, date_to |-> 0,
     hotel_id |-> NoHotel, price |-> 0, booking_id |-> 0, status |-> 0]

\* The hotels table: title and location, one character per element.
HotelTitle(hotel_id) == IF hotel_id = 1 THEN <<"A", "b">> ELSE <<"b", "c">>
HotelLocation(hotel_id) == IF hotel_id = 1 THEN <<"x">> ELSE <<"y">>

\* The rows of hotels, facilities and users before any request.
StoredHotels ==
    [h \in HotelIds |-> [title |-> HotelTitle(h), location |-> HotelLocation(h)]]
StoredFacilities == {[id |-> 1, title |-> "WI-FI"], [id |-> 2, title |-> "TV"]}
StoredUsers == {[id |-> 1, email |-> "kot@pes.com"]}

Init ==
    /\ \E q \in 1..MaxQty :
          rooms = [r \in StoredRooms |->
                      [hotel_id |-> RoomHotel(r), price |-> RoomPrice(r),
                       quantity |-> IF r = 1 THEN q ELSE 1]]
    /\ room_facilities = {[room_id |-> 1, facility_id |-> 1]}
    /\ bookings = {}
    /\ next_id = 1
    /\ last = NoRequest
    /\ prev = Store
    /\ reqs = [i \in ReqIds |-> IdleReq]
    /\ search = NoSearch
    /\ session = NoSession
    /\ hotels = StoredHotels
    /\ facilities = StoredFacilities
    /\ users = StoredUsers
    /\ cache = {}

\* POST /bookings requests and booking deletions, one after the other.
Next ==
    \/ \E room_id \in RoomIds, rng \in Ranges, user_id \in UserIds :
          ApiCreateBooking(room_id, rng[1], rng[2], user_id)
    \/ \E booking_id \in BookingIds : DeleteBooking(booking_id)

Spec == Init /\ [][Next]_vars

\* The same store driven through BookingService.
NextService ==
    \/ \E room_id \in RoomIds, rng \in Ranges, user_id \in UserIds :
          ServiceCreateBooking(room_id, rng[1], rng[2], user_id)
    \/ \E booking_id \in BookingIds : DeleteBooking(booking_id)

SpecService == Init /\ [][NextService]_vars

\* Booking requests with arbitrary date pairs, validated before the handler.
NextValidate ==
    \/ \E room_id \in RoomIds, date_from \in Days, date_to \in Days, user_id \in UserIds :
          PostBooking(room_id, date_from, date_to, user_id)
    \/ \E booking_id \in BookingIds : DeleteBooking(booking_id)

SpecValidate == Init /\ [][NextValidate]_vars

\* Availability checks on the store as bookings are added to it.
NextAvail ==
    \/ \E room_id \in StoredRooms, rng \in Ranges, user_id \in UserIds :
          ServiceCreateBooking(room_id, rng[1], rng[2], user_id)
    \/ \E rng \in Ranges : CheckAvailability(rng[1], rng[2])

SpecAvail == Init /\ [][NextAvail]_vars

\* The availability query on any pair of dates as bookings are added.
NextQuery ==
    \/ \E room_id \in StoredRooms, rng \in Ranges, user_id \in UserIds :
          ServiceCreateBooking(room_id, rng[1], rng[2], user_id)
    \/ \E date_from \in Days, date_to \in Days, hotel_id \in HotelIds \cup {NoHotel} :
          QueryAvailability(date_from, date_to, hotel_id)

SpecQuery == Init /\ [][NextQuery]_vars

\* Facility reconciliations of the stored rooms and of a missing one.
NextFacilities ==
    \E room_id \in RoomIds, facilities_ids \in FacilitiesIdsValues :
        ReconcileRoomFacilities(room_id, facilities_ids)

SpecFacilities == Init /\ [][NextFacilities]_vars

(* ----------------- one reconciliation, statement by statement ---------- *)
\* edit_room_with_facilities and the caller's session_commit, one step per
\* awaited statement, while other requests read room_facilities.  The
\* session's statements act on its own view (rows); the committed table
\* changes at session_commit only.

TxActive == session.op = "reconcile_tx" /\ session.pc # "done"

\* current_facilities = await self.session.execute(select ...): the session starts.
TxBegin(room_id, facilities_ids) ==
    /\ ~TxActive
    /\ prev' = Store
    /\ session' = [op |-> "reconcile_tx", pc |-> "delete", room_id |-> room_id,
                   facilities_ids |-> facilities_ids, rows |-> room_facilities,
                   to_delete |-> ids_to_delete(room_facilities, facilities_ids, room_id),
                   to_insert |-> ids_to_insert(room_facilities, facilities_ids, room_id),
                   stmts |-> <<>>, error |-> "none", committed |-> FALSE]
    /\ last' = NoRequest
    /\ UNCHANGED <<rooms, room_facilities, bookings, next_id, reqs, search, hotels, facilities, users, cache>>

\* Mutant: the delete statement is committed on its own.
TxDeleteAutocommit ==
    /\ TxActive /\ session.pc = "delete"
    /\ session' = [session EXCEPT
                      !.pc = "insert",
                      !.rows = DeleteStmt(@, session.room_id, session.to_delete),
                      !.stmts = IF session.to_delete # {} THEN <<"delete">> ELSE <<>>]
    /\ room_facilities' = DeleteStmt(room_facilities, session.room_id, session.to_delete)
    /\ UNCHANGED <<rooms, bookings, next_id, last, prev, reqs, search, hotels, facilities, users, cache>>

\* if ids_to_delete: await self.session.execute(delete_stmt)
TxDelete ==
    /\ TxActive /\ session.pc = "delete"
    /\ session' = [session EXCEPT
                      !.pc = "insert",
                      !.rows = IF session.to_delete # {}
                               THEN DeleteStmt(@, session.room_id, session.to_delete)
                               ELSE @,
                      !.stmts = IF session.to_delete # {} THEN <<"delete">> ELSE <<>>]
    /\ UNCHANGED <<rooms, room_facilities, bookings, next_id, last, prev, reqs, search, hotels, facilities, users, cache>>

\* if ids_to_insert: await self.session.execute(insert_stmt); the statement
\* raises IntegrityError when a row violates a foreign key.
TxInsert ==
    /\ TxActive /\ session.pc = "insert"
    /\ session' =
          IF session.to_insert = {}
          THEN [session EXCEPT !.pc = "commit"]
          ELSE IF InsertViolatesForeignKey(rooms, session.room_id, session.to_insert)
               THEN [session EXCEPT !.pc = "failed", !.stmts = @ \o <<"insert">>,
                                    !.error = "IntegrityError"]
               ELSE [session EXCEPT !.pc = "commit", !.stmts = @ \o <<"insert">>,
                                    !.rows = InsertStmt(@, session.room_id, session.to_insert)]
    /\ UNCHANGED <<rooms, room_facilities, bookings, next_id, last, prev, reqs, search, hotels, facilities, users, cache>>

\* await self.db.session_commit()
TxCommit ==
    /\ TxActive /\ session.pc = "commit"
    /\ room_facilities' = session.rows
    /\ session' = [session EXCEPT !.pc = "done", !.committed = TRUE]
    /\ UNCHANGED <<rooms, bookings, next_id, last, prev, reqs, search, hotels, facilities, users, cache>>

\* The exception leaves the handler: session_commit is not reached and the
\* session is closed, which rolls its statements back.
TxRollback ==
    /\ TxActive /\ session.pc = "failed"
    /\ session' = [session EXCEPT !.pc = "done", !.rows = room_facilities]
    /\ UNCHANGED <<rooms, room_facilities, bookings, next_id, last, prev, reqs, search, hotels, facilities, users, cache>>

\* Another request reads the room's facilities in its own session: it sees
\* committed rows only.  during: where the reconciliation stood at that time.
ObserveFacilities(room_id) ==
    /\ TxActive
    /\ last' = [op |-> "observe", room_id |-> room_id, during |-> session.pc,
                result |-> current_facilities_ids(room_facilities, room_id)]
    /\ UNCHANGED <<rooms, room_facilities, bookings, next_id, prev, reqs, search, session, hotels, facilities, users, cache>>

NextReconcileTx ==
    \/ \E room_id \in RoomIds, facilities_ids \in FacilitiesIdsValues :
          TxBegin(room_id, facilities_ids)
    \/ TxDelete
    \/ TxInsert
    \/ TxCommit
    \/ TxRollback
    \/ \E room_id \in RoomIds : ObserveFacilities(room_id)

SpecReconcileTx == Init /\ [][NextReconcileTx]_vars

(* --------------------------- room edits (service) ---------------------- *)

\* Hotel ids a room edit may name (hotel 3 is not stored) and prices it may set.
EditHotelIds == HotelIds \cup {3}
EditPrices == {150}

\* HotelService.get_hotel_with_check: the hotel existence lookup before a room
\* operation; the exception it raises, "none" when the hotel is stored.
get_hotel_with_check(hotel_id) ==
    IF hotel_id \in HotelIds THEN "none" ELSE "HotelNotFoundException"

\* RoomService.get_room_with_check
get_room_with_check(room_id) ==
    IF room_id \in DOMAIN rooms THEN "none" ELSE "RoomNotFoundException"

\* RoomService.check_missing_facilities_ids: for a non-empty list,
\* get_missing_facility_with_check calls self.db.facilities.get_by_ids, which
\* neither FacilitiesRepository nor BaseRepository defines; for None and for
\* an empty list it returns None and nothing is raised.
check_missing_facilities_ids(facilities_ids) ==
    IF ~facilities_ids.is_none /\ facilities_ids.ids # <<>>
    THEN "AttributeError"
    ELSE "none"

\* The parameters of edit_room_with_facilities(self, data, room_id, **filter_by)
\* that a call must supply.
RequiredParams == <<"data", "room_id">>

\* Python's argument binding: every required parameter is given by position
\* or by keyword, else the call raises TypeError before the body runs.
Binds(n_positional, keywords) ==
    \A i \in DOMAIN RequiredParams : i <= n_positional \/ RequiredParams[i] \in keywords

\* self.db.room_facilities.edit_room_with_facilities(room_id, facilities_ids=...):
\* one positional argument and the keyword facilities_ids.
CallFromService(rms, rf, facilities_ids, room_id) ==
    IF Binds(1, {"facilities_ids"})
    THEN edit_room_with_facilities(rms, rf, facilities_ids, room_id)
    ELSE [rows |-> rf, stmts |-> <<>>, error |-> "TypeError"]

\* The first exception a room edit raises before its statements, "none" if none.
EditChecks(hotel_id, room_id, facilities_ids) ==
    IF get_hotel_with_check(hotel_id) # "none" THEN get_hotel_with_check(hotel_id)
    ELSE IF get_room_with_check(room_id) # "none" THEN get_room_with_check(room_id)
    ELSE check_missing_facilities_ids(facilities_ids)

\* RoomService.edit_room: the checks, rooms.edit(_room_data, id=room_id) (which
\* also writes the path's hotel_id), edit_room_with_facilities, session_commit.
\* An exception at any step leaves the session uncommitted.
EditRoom(hotel_id, room_id, price, quantity, facilities_ids) ==
    LET checks == EditChecks(hotel_id, room_id, facilities_ids)
        call == CallFromService(rooms, room_facilities, facilities_ids, room_id)
        error == IF checks # "none" THEN checks ELSE call.error
    IN  /\ prev' = Store
        /\ IF error = "none"
           THEN /\ rooms' = [rooms EXCEPT ![room_id] =
                                [hotel_id |-> hotel_id, price |-> price, quantity |-> quantity]]
                /\ room_facilities' = call.rows
           ELSE UNCHANGED <<rooms, room_facilities, cache>>
        /\ session' = Session("edit_room", hotel_id, room_id, facilities_ids,
                              ~facilities_ids.is_none,
                              IF checks = "none" THEN call.stmts ELSE <<>>,
                              error, error = "none")
        /\ UNCHANGED <<bookings, next_id, last, reqs, search, hotels, facilities, users, cache>>

\* RoomService.edit_room_partially with a body that sets price and, when given,
\* facilities_ids: the checks, rooms.edit(..., id=room_id, hotel_id=hotel_id)
\* (NoResultFound when the room is not of that hotel), edit_room_with_facilities
\* only if "facilities_ids" is among the set fields, session_commit.
EditRoomPartially(hotel_id, room_id, price, given, facilities_ids) ==
    LET checks == EditChecks(hotel_id, room_id, facilities_ids)
        no_row == rooms[room_id].hotel_id # hotel_id
        call == IF given
                THEN CallFromService(rooms, room_facilities, facilities_ids, room_id)
                ELSE [rows |-> room_facilities, stmts |-> <<>>, error |-> "none"]
        error == IF checks # "none" THEN checks
                 ELSE IF no_row THEN "NoResultFound"
                 ELSE call.error
    IN  /\ prev' = Store
        /\ IF error = "none"
           THEN /\ rooms' = [rooms EXCEPT ![room_id].price = price]
                /\ room_facilities' = call.rows
           ELSE UNCHANGED <<rooms, room_facilities, cache>>
        /\ session' = Session("edit_room_partially", hotel_id, room_id, facilities_ids,
                              given,
                              IF checks = "none" /\ ~no_row THEN call.stmts ELSE <<>>,
                              error, error = "none")
        /\ UNCHANGED <<bookings, next_id, last, reqs, search, hotels, facilities, users, cache>>

\* RoomService.edit_room_partially with a body that sets quantity only: the
\* checks (facilities_ids is None), rooms.edit(..., id=room_id, hotel_id=hotel_id)
\* (NoResultFound when the room is not of that hotel), no facility call,
\* session_commit.  Nothing compares the new quantity with the room's bookings.
EditRoomQuantity(hotel_id, room_id, quantity) ==
    LET checks == EditChecks(hotel_id, room_id, NoneIds)
        no_row == rooms[room_id].hotel_id # hotel_id
        error == IF checks # "none" THEN checks
                 ELSE IF no_row THEN "NoResultFound" ELSE "none"
    IN  /\ prev' = Store
        /\ rooms' = IF error = "none"
                    THEN [rooms EXCEPT ![room_id].quantity = quantity]
                    ELSE rooms
        /\ session' = Session("edit_room_partially", hotel_id, room_id, NoneIds, FALSE,
                              <<>>, error, error = "none")
        /\ UNCHANGED <<room_facilities, bookings, next_id, last, reqs, search, hotels,
                       facilities, users, cache>>

\* Full and partial room edits through RoomService.  A body that omits
\* facilities_ids carries None.
NextRoomEdit ==
    \/ \E hotel_id \in EditHotelIds, room_id \in RoomIds, price \in EditPrices,
          quantity \in 1..MaxQty, facilities_ids \in FacilitiesIdsValues :
          EditRoom(hotel_id, room_id, price, quantity, facilities_ids)
    \/ \E hotel_id \in EditHotelIds, room_id \in RoomIds, price \in EditPrices,
          given \in BOOLEAN, facilities_ids \in FacilitiesIdsValues :
          /\ ~given => facilities_ids = NoneIds
          /\ EditRoomPartially(hotel_id, room_id, price, given, facilities_ids)

SpecRoomEdit == Init /\ [][NextRoomEdit]_vars

\* Bookings of the stored rooms for one range, and edits of their quantity:
\* full edits (without facilities_ids) and partial edits.
QuantityRange == <<1, 2>>

NextQuantity ==
    \/ \E room_id \in StoredRooms, user_id \in UserIds :
          ServiceCreateBooking(room_id, QuantityRange[1], QuantityRange[2], user_id)
    \/ \E booking_id \in BookingIds : DeleteBooking(booking_id)
    \/ \E hotel_id \in EditHotelIds, room_id \in RoomIds, price \in EditPrices,
          quantity \in 1..MaxQty :
          EditRoom(hotel_id, room_id, price, quantity, NoneIds)
    \/ \E hotel_id \in EditHotelIds, room_id \in RoomIds, quantity \in 1..MaxQty :
          EditRoomQuantity(hotel_id, room_id, quantity)

SpecQuantity == Init /\ [][NextQuantity]_vars

(* ------------------------------ room creation -------------------------- *)

MaxRooms == 3        \* at most this many rooms rows are ever stored

\* facilities_ids of a room creation: None, or a list of one or two ids, which
\* may repeat an id and may name a missing facility.
CreateIdsValues ==
    {NoneIds} \cup {ListIds(ids) : ids \in UNION {[1..n -> TargetIds] : n \in 1..MaxTarget}}

\* facilities_ids of the service calls: None, the empty list, one id, and a
\* list that repeats an id.
RepeatIdsValues == {NoneIds, ListIds(<<>>), ListIds(<<2>>), ListIds(<<2, 2>>)}

\* The primary key of a room_facilities row, 0 where the model leaves it out.
RowId(row) == IF "id" \in DOMAIN row THEN row.id ELSE 0

MaxRowId(rf) == IF rf = {} THEN 0 ELSE CHOOSE n \in {RowId(r) : r \in rf} :
                                           \A r \in rf : RowId(r) <= n

\* BaseRepository.add_bulk on room_facilities: insert ... values (one row per
\* element of the list).  Each row gets its own primary key, so two elements
\* with the same facility id give two rows.
AddBulk(rf, room_id, ids) ==
    rf \cup {[id |-> MaxRowId(rf) + i, room_id |-> room_id, facility_id |-> ids[i]] :
                i \in DOMAIN ids}

\* db.rooms.add(_room_data): the new row under the next id of the sequence.
RoomsAdd(rms, hotel_id) ==
    [r \in DOMAIN rms \cup {Cardinality(DOMAIN rms) + 1} |->
        IF r \in DOMAIN rms THEN rms[r]
        ELSE [hotel_id |-> hotel_id, price |-> 300, quantity |-> 1]]

\* POST /hotels/{hotel_id}/rooms (api/rooms.py create_room): hotels.get_one
\* (404 for a missing hotel), rooms.add, one RoomFacilityAdd per element of
\* facilities_ids (TypeError when it is None), add_bulk (IntegrityError for a
\* missing facility), session_commit.  An exception leaves the session
\* uncommitted.
ApiCreateRoom(hotel_id, facilities_ids) ==
    LET room_id == Cardinality(DOMAIN rooms) + 1
        error == IF hotel_id \notin DOMAIN hotels THEN "ObjectNotFoundException"
                 ELSE IF facilities_ids.is_none THEN "TypeError"
                 ELSE IF ~(ToSet(facilities_ids.ids) \subseteq FacilityIds)
                      THEN "IntegrityError"
                      ELSE "none"
    IN  /\ Cardinality(DOMAIN rooms) < MaxRooms
        /\ prev' = Store
        /\ IF error = "none"
           THEN /\ rooms' = RoomsAdd(rooms, hotel_id)
                /\ room_facilities' = AddBulk(room_facilities, room_id, facilities_ids.ids)
           ELSE UNCHANGED <<rooms, room_facilities>>
        /\ session' = Session("create_room", hotel_id, room_id, facilities_ids,
                              ~facilities_ids.is_none,
                              IF error \in {"none", "IntegrityError"}
                              THEN <<"insert">> ELSE <<>>,
                              error, error = "none")
        /\ UNCHANGED <<bookings, next_id, last, reqs, search, hotels, facilities, users,
                       cache>>

\* RoomService.add_room: get_hotel_with_check, check_missing_facilities_ids,
\* rooms.add, add_bulk when facilities_ids is a non-empty list, session_commit.
ServiceAddRoom(hotel_id, facilities_ids) ==
    LET room_id == Cardinality(DOMAIN rooms) + 1
        bulk == ~facilities_ids.is_none /\ facilities_ids.ids # <<>>
        error == IF get_hotel_with_check(hotel_id) # "none"
                 THEN get_hotel_with_check(hotel_id)
                 ELSE IF check_missing_facilities_ids(facilities_ids) # "none"
                      THEN check_missing_facilities_ids(facilities_ids)
                      ELSE IF bulk /\ ~(ToSet(facilities_ids.ids) \subseteq FacilityIds)
                           THEN "IntegrityError"
                           ELSE "none"
    IN  /\ Cardinality(DOMAIN rooms) < MaxRooms
        /\ prev' = Store
        /\ IF error = "none"
           THEN /\ rooms' = RoomsAdd(rooms, hotel_id)
                /\ room_facilities' = IF bulk
                                      THEN AddBulk(room_facilities, room_id,
                                                   facilities_ids.ids)
                                      ELSE room_facilities
           ELSE UNCHANGED <<rooms, room_facilities>>
        /\ session' = Session("add_room", hotel_id, room_id, facilities_ids,
                              ~facilities_ids.is_none,
                              IF bulk /\ error \in {"none", "IntegrityError"}
                              THEN <<"insert">> ELSE <<>>,
                              error, error = "none")
        /\ UNCHANGED <<bookings, next_id, last, reqs, search, hotels, facilities, users,
                       cache>>

\* Room creations through the handler and through RoomService, and room edits.
NextRoomAdd ==
    \/ \E hotel_id \in EditHotelIds, facilities_ids \in CreateIdsValues :
          ApiCreateRoom(hotel_id, facilities_ids)
    \/ \E hotel_id \in EditHotelIds, facilities_ids \in RepeatIdsValues :
          ServiceAddRoom(hotel_id, facilities_ids)
    \/ \E hotel_id \in EditHotelIds, room_id \in RoomIds, price \in EditPrices,
          facilities_ids \in RepeatIdsValues :
          EditRoom(hotel_id, room_id, price, 1, facilities_ids)
    \/ \E hotel_id \in EditHotelIds, room_id \in RoomIds, price \in EditPrices,
          given \in BOOLEAN, facilities_ids \in RepeatIdsValues :
          /\ ~given => facilities_ids = NoneIds
          /\ EditRoomPartially(hotel_id, room_id, price, given, facilities_ids)

SpecRoomAdd == Init /\ [][NextRoomAdd]_vars

(* ------------------------------ room deletion -------------------------- *)

\* Mutant: rows referencing the room do not hold the delete back.
RoomIsReferencedNever(bks, rf, room_id) == FALSE

\* The foreign keys to rooms.id (bookings.room_id, room_facilities.room_id),
\* declared without ON DELETE: deleting a referenced room row is refused.
RoomIsReferenced(bks, rf, room_id) ==
    \/ \E b \in bks : b.room_id = room_id
    \/ \E r \in rf : r.room_id = room_id

\* delete from rooms where hotel_id = :hotel_id and id = :id
RoomsDeleteMatches(rms, hotel_id, room_id) ==
    {r \in DOMAIN rms : r = room_id /\ rms[r].hotel_id = hotel_id}

\* RoomService.delete_room: the two checks, rooms.delete(hotel_id, id), then
\* session_commit.  The delete statement raises IntegrityError when a matched
\* room is referenced; an exception at any step leaves the session uncommitted.
\* No matching row is not an error.
DeleteRoom(hotel_id, room_id) ==
    LET checks == IF get_hotel_with_check(hotel_id) # "none"
                  THEN get_hotel_with_check(hotel_id)
                  ELSE get_room_with_check(room_id)
        matched == RoomsDeleteMatches(rooms, hotel_id, room_id)
        refused == \E r \in matched : RoomIsReferenced(bookings, room_facilities, r)
        error == IF checks # "none" THEN checks
                 ELSE IF refused THEN "IntegrityError" ELSE "none"
    IN  /\ prev' = Store
        /\ rooms' = IF error = "none"
                    THEN [r \in DOMAIN rooms \ matched |-> rooms[r]]
                    ELSE rooms
        /\ last' = Response("delete_room", room_id, hotel_id, 0, 0, 0, error,
                            IF error = "none" THEN 200 ELSE 0, {}, 0)
        /\ UNCHANGED <<room_facilities, bookings, next_id, reqs, search, session, hotels, facilities, users, cache>>

\* Bookings are made for this range in SpecRoomDelete.
DeleteRoomRanges == {<<1, 2>>, <<2, 3>>}

NextRoomDelete ==
    \/ \E room_id \in RoomIds, rng \in DeleteRoomRanges, user_id \in UserIds :
          ServiceCreateBooking(room_id, rng[1], rng[2], user_id)
    \/ \E booking_id \in BookingIds : DeleteBooking(booking_id)
    \/ \E hotel_id \in EditHotelIds, room_id \in RoomIds : DeleteRoom(hotel_id, room_id)

SpecRoomDelete == Init /\ [][NextRoomDelete]_vars

(* -------------------------- facilities and users ---------------------- *)

MaxFacilities == 4   \* at most this many facilities rows are ever stored
MaxUsers == 3        \* at most this many users rows are ever stored

\* Titles and emails a request may carry; one of each is stored from the start.
FacilityTitles == {"WI-FI", "Balcony"}
UserEmails == {"kot@pes.com", "test@api.com"}

\* The hotels, facilities and users tables, as a request finds them.
Catalog == [hotels |-> hotels, facilities |-> facilities, users |-> users]

\* A request on these tables and its outcome: key is the title, the email or
\* the id the request names, status 0 when a non-HTTP exception is raised
\* by a service.
Outcome(op, key, error, status) ==
    [op |-> op, key |-> key, error |-> error, status |-> status]

\* The next value of a table's id sequence.
NextId(rows) == Cardinality(rows) + 1

\* insert into facilities: the table declares no unique constraint on title,
\* so the insert never conflicts.
FacilityInsertConflicts(rows, title) == FALSE

\* POST /facilities (api/facilities.py): db.facilities.add, session_commit.
ApiCreateFacility(title) ==
    /\ Cardinality(facilities) < MaxFacilities
    /\ prev' = Catalog
    /\ IF FacilityInsertConflicts(facilities, title)
       THEN /\ last' = Outcome("create_facility", title, "ObjectAlreadyExistsException", 409)
            /\ facilities' = facilities
       ELSE /\ last' = Outcome("create_facility", title, "none", 200)
            /\ facilities' = facilities \cup {[id |-> NextId(facilities), title |-> title]}
    /\ UNCHANGED <<rooms, room_facilities, bookings, next_id, reqs, search, session,
                   hotels, users, cache>>

\* FacilityService.create_facility: read all facilities, compare titles, add,
\* session_commit.
ServiceCreateFacility(title) ==
    /\ Cardinality(facilities) < MaxFacilities
    /\ prev' = Catalog
    /\ IF title \in {f.title : f \in facilities}
       THEN /\ last' = Outcome("service_create_facility", title,
                               "ObjectAlreadyExistsException", 0)
            /\ facilities' = facilities
       ELSE /\ last' = Outcome("service_create_facility", title, "none", 200)
            /\ facilities' = facilities \cup {[id |-> NextId(facilities), title |-> title]}
    /\ UNCHANGED <<rooms, room_facilities, bookings, next_id, reqs, search, session,
                   hotels, users, cache>>

\* insert into users: users.email carries a unique constraint; BaseRepository.add
\* turns the violation into ObjectAlreadyExistsException.
UserInsertConflicts(rows, email) == \E u \in rows : u.email = email

\* POST /auth/register (api/auth.py): UserRepository.add, session.commit.  The
\* handler catches nothing, so ObjectAlreadyExistsException (not an
\* HTTPException) leaves it and the response is a 500.
RegisterUser(email) ==
    /\ Cardinality(users) < MaxUsers
    /\ prev' = Catalog
    /\ IF UserInsertConflicts(users, email)
       THEN /\ last' = Outcome("register_user", email, "ObjectAlreadyExistsException", 500)
            /\ users' = users
       ELSE /\ last' = Outcome("register_user", email, "none", 200)
            /\ users' = users \cup {[id |-> NextId(users), email |-> email]}
    /\ UNCHANGED <<rooms, room_facilities, bookings, next_id, reqs, search, session,
                   hotels, facilities, cache>>

\* AuthService.register_user: ObjectAlreadyExistsException is turned into
\* UserAlreadyExistsException, which leaves the service.
ServiceRegisterUser(email) ==
    /\ Cardinality(users) < MaxUsers
    /\ prev' = Catalog
    /\ IF UserInsertConflicts(users, email)
       THEN /\ last' = Outcome("service_register_user", email,
                               "UserAlreadyExistsException", 0)
            /\ users' = users
       ELSE /\ last' = Outcome("service_register_user", email, "none", 200)
            /\ users' = users \cup {[id |-> NextId(users), email |-> email]}
    /\ UNCHANGED <<rooms, room_facilities, bookings, next_id, reqs, search, session,
                   hotels, facilities, cache>>

NextUnique ==
    \/ \E title \in FacilityTitles : ApiCreateFacility(title)
    \/ \E title \in FacilityTitles : ServiceCreateFacility(title)
    \/ \E email \in UserEmails : RegisterUser(email)
    \/ \E email \in UserEmails : ServiceRegisterUser(email)

SpecUnique == Init /\ [][NextUnique]_vars

(* ------------------------------ hotel edits ---------------------------- *)

\* Hotel ids a request may name: hotels 1 and 2 own rooms, hotel 3 is stored
\* without rooms, hotel 4 is never stored.
HotelRequestIds == {1, 2, 3, 4}
NewHotelData == [title |-> <<"z">>, location |-> <<"w">>]

\* The foreign key rooms.hotel_id -> hotels.id, declared without ON DELETE.
HotelIsReferenced(rms, hotel_id) == \E r \in DOMAIN rms : rms[r].hotel_id = hotel_id

\* BaseRepository.edit(data, id = hotel_id): update ... returning, then
\* scalar_one, which raises NoResultFound when no row matched.
HotelsEdit(rows, hotel_id, data) ==
    IF hotel_id \in DOMAIN rows
    THEN [rows |-> [rows EXCEPT ![hotel_id] = data], error |-> "none"]
    ELSE [rows |-> rows, error |-> "NoResultFound"]

\* PUT /hotels/{hotel_id}: HotelService.edit_hotel.  The get_one coroutine is
\* created but not awaited, so no existence check runs; the handler catches
\* only ObjectNotFoundException, any other exception is answered with 500.
PutHotel(hotel_id) ==
    LET call == HotelsEdit(hotels, hotel_id, NewHotelData)
    IN  /\ prev' = Catalog
        /\ hotels' = call.rows
        /\ last' = Outcome("put_hotel", hotel_id, call.error,
                           IF call.error = "none" THEN 200 ELSE 500)
        /\ UNCHANGED <<rooms, room_facilities, bookings, next_id, reqs, search, session,
                       facilities, users, cache>>

\* PATCH /hotels/{hotel_id}: the handler calls
\* edit_hotel_partially(hotel_id, hotel_data, exclude_unset=True), a keyword the
\* service method does not take: TypeError before the method body.
PatchHotel(hotel_id) ==
    /\ prev' = Catalog
    /\ last' = Outcome("patch_hotel", hotel_id, "TypeError", 500)
    /\ UNCHANGED <<rooms, room_facilities, bookings, next_id, reqs, search, session,
                   hotels, facilities, users, cache>>

\* HotelService.edit_hotel_partially called with its own parameters.
ServiceEditHotelPartially(hotel_id) ==
    LET call == HotelsEdit(hotels, hotel_id, NewHotelData)
    IN  /\ prev' = Catalog
        /\ hotels' = call.rows
        /\ last' = Outcome("service_edit_hotel_partially", hotel_id, call.error,
                           IF call.error = "none" THEN 200 ELSE 0)
        /\ UNCHANGED <<rooms, room_facilities, bookings, next_id, reqs, search, session,
                       facilities, users, cache>>

\* DELETE /hotels/{hotel_id}: HotelService.delete_hotel.  No existence check
\* runs (get_one is not awaited); the delete statement removes the matching
\* row, is refused when rooms reference it, and is not an error when no row
\* matches.
DeleteHotel(hotel_id) ==
    LET refused == hotel_id \in DOMAIN hotels /\ HotelIsReferenced(rooms, hotel_id)
    IN  /\ prev' = Catalog
        /\ hotels' = IF refused THEN hotels
                     ELSE [h \in DOMAIN hotels \ {hotel_id} |-> hotels[h]]
        /\ last' = Outcome("delete_hotel", hotel_id,
                           IF refused THEN "IntegrityError" ELSE "none",
                           IF refused THEN 500 ELSE 200)
        /\ UNCHANGED <<rooms, room_facilities, bookings, next_id, reqs, search, session,
                       facilities, users, cache>>

InitHotel ==
    /\ rooms = [r \in StoredRooms |->
                  [hotel_id |-> RoomHotel(r), price |-> RoomPrice(r), quantity |-> 1]]
    /\ room_facilities = {[room_id |-> 1, facility_id |-> 1]}
    /\ bookings = {}
    /\ next_id = 1
    /\ last = NoRequest
    /\ reqs = [i \in ReqIds |-> IdleReq]
    /\ search = NoSearch
    /\ session = NoSession
    /\ hotels = [h \in HotelIds \cup {3} |->
                   [title |-> HotelTitle(h), location |-> HotelLocation(h)]]
    /\ facilities = StoredFacilities
    /\ users = StoredUsers
    /\ cache = {}
    /\ prev = Catalog

NextHotel ==
    \/ \E hotel_id \in HotelRequestIds : PutHotel(hotel_id)
    \/ \E hotel_id \in HotelRequestIds : PatchHotel(hotel_id)
    \/ \E hotel_id \in HotelRequestIds : ServiceEditHotelPartially(hotel_id)
    \/ \E hotel_id \in HotelRequestIds : DeleteHotel(hotel_id)

SpecHotel == InitHotel /\ [][NextHotel]_vars

(* ----------------------------- room price edits ------------------------ *)

\* The rooms the requests of SpecPrice name (one stored, one not) and the
\* users that book in SpecPrice.
PriceRoomIds == {1, 3}
BookingUserIds == {1, 2}

\* db.rooms.edit(data, exclude_unset=True, id=room_id) with data carrying a
\* price, then session_commit: update rooms set price = :price where id = :id
\* returning; scalar_one raises NoResultFound when no row matched.
RoomsEdit(room_id, price) ==
    /\ prev' = Store
    /\ IF room_id \in DOMAIN rooms
       THEN /\ rooms' = [rooms EXCEPT ![room_id].price = price]
            /\ last' = Response("rooms_edit", room_id, rooms[room_id].hotel_id, 0, 0, 0,
                                "none", 200, {}, 0)
       ELSE /\ rooms' = rooms
            /\ last' = Response("rooms_edit", room_id, NoHotel, 0, 0, 0,
                                "NoResultFound", 500, {}, 0)
    /\ UNCHANGED <<room_facilities, bookings, next_id, reqs, search, session, hotels, facilities, users, cache>>

\* Bookings by several users while room prices are edited.
NextPrice ==
    \/ \E room_id \in PriceRoomIds, rng \in Ranges, user_id \in BookingUserIds :
          ServiceCreateBooking(room_id, rng[1], rng[2], user_id)
    \/ \E room_id \in PriceRoomIds, price \in EditPrices : RoomsEdit(room_id, price)

SpecPrice == Init /\ [][NextPrice]_vars

(* ---------------------------- hotel and room search -------------------- *)

MaxPage == 2         \* pages 1..MaxPage are requested
DefaultPerPage == 5  \* pagination.per_page or 5
NoPerPage == 0       \* per_page = None

\* Filters of a search; the empty text stands for None as well (both falsy).
TitleFilters == {<<>>, <<"a">>, <<"_">>}
LocationFilters == {<<>>, <<"X">>}

\* Date pairs of a search: two ranges and two pairs with date_from >= date_to.
SearchDates == {<<1, 2>>, <<3, 4>>, <<2, 2>>, <<3, 1>>}
PerPages == {NoPerPage, 2}

\* Case folding of ILIKE on the characters used here.
Lower(c) ==
    IF c = "A" THEN "a" ELSE IF c = "B" THEN "b" ELSE IF c = "X" THEN "x" ELSE c

\* text LIKE pattern, case-insensitively: % matches any run of characters,
\* _ matches any one character, any other character matches itself.
RECURSIVE LikeMatch(_, _)
LikeMatch(text, pattern) ==
    IF pattern = <<>> THEN text = <<>>
    ELSE IF Head(pattern) = "%"
         THEN \/ LikeMatch(text, Tail(pattern))
              \/ (text # <<>> /\ LikeMatch(Tail(text), pattern))
         ELSE /\ text # <<>>
              /\ (Head(pattern) = "_" \/ Lower(Head(pattern)) = Lower(Head(text)))
              /\ LikeMatch(Tail(text), Tail(pattern))

\* column.ilike(f"%{filter}%")
ilike(text, filter) == LikeMatch(text, <<"%">> \o filter \o <<"%">>)

\* if title: filter(HotelsModel.title.ilike(...)); if location: likewise.  The
\* hotels table of these filters is the one of the enclosing select (the
\* subquery is correlated), so they test the hotel row being selected.
HotelPassesFilters(hotel_id, title, location) ==
    /\ title # <<>> => ilike(HotelTitle(hotel_id), title)
    /\ location # <<>> => ilike(HotelLocation(hotel_id), location)

\* All orders in which a query without ORDER BY may return the rows S.
Orders(S) ==
    {f \in [1..Cardinality(S) -> S] : \A x \in S : \E i \in DOMAIN f : f[i] = x}

\* .limit(limit).offset(offset) on a row sequence
LimitOffset(rows, limit, offset) ==
    SubSeq(rows, offset + 1, IF offset + limit < Len(rows) THEN offset + limit ELSE Len(rows))

\* HotelsRepository.get_hotels_by_time with the available rooms returned in
\* room_order: select rooms.hotel_id ... limit/offset yields one row per
\* available room; a hotel is selected when its id is among those rows and
\* the filters pass for it.
get_hotels_by_time(rms, room_order, title, location, limit, offset) ==
    LET hotel_ids == LimitOffset([i \in DOMAIN room_order |-> rms[room_order[i]].hotel_id],
                                 limit, offset)
    IN  {h \in HotelIds :
            /\ \E i \in DOMAIN hotel_ids : hotel_ids[i] = h
            /\ HotelPassesFilters(h, title, location)}

\* check_date_to_after_date_from: the exception's status, 0 when none is raised.
check_date_to_after_date_from(date_from, date_to) ==
    IF date_from >= date_to THEN 422 ELSE 0

\* The most recent request was a search; its details are in the variable search.
SearchRequest == Response("search", 0, NoHotel, 0, 0, 0, "none", 0, {}, 0)

\* A search and its response: rows is the returned id sequence, is_none tells
\* a None return, query_ran whether a query was executed on the session.
Search(op, hotel_id, date_from, date_to, title, location, page, per_page, status, rows, query_ran, is_none) ==
    [op |-> op, hotel_id |-> hotel_id, date_from |-> date_from, date_to |-> date_to,
     title |-> title, location |-> location, page |-> page, per_page |-> per_page,
     status |-> status, rows |-> rows, query_ran |-> query_ran, is_none |-> is_none]

\* GET /hotels: HotelService.get_hotels_by_time.  The available rooms and the
\* selected hotels come back in an order the query does not fix.
SearchHotels(date_from, date_to, title, location, page, per_page) ==
    LET limit == IF per_page = NoPerPage THEN DefaultPerPage ELSE per_page
        offset == limit * (page - 1)
        available == rooms_ids_for_booking(rooms, bookings, date_from, date_to, NoHotel)
    IN  /\ prev' = Store
        /\ last' = SearchRequest
        /\ IF check_date_to_after_date_from(date_from, date_to) # 0
           THEN search' = Search("search_hotels", NoHotel, date_from, date_to, title,
                                 location, page, per_page,
                                 check_date_to_after_date_from(date_from, date_to),
                                 <<>>, FALSE, FALSE)
           ELSE \E room_order \in Orders(available) :
                    \E rows \in Orders(get_hotels_by_time(rooms, room_order, title,
                                                          location, limit, offset)) :
                        search' = Search("search_hotels", NoHotel, date_from, date_to,
                                         title, location, page, per_page, 200, rows,
                                         TRUE, FALSE)
        /\ UNCHANGED <<rooms, room_facilities, bookings, next_id, reqs, session, hotels, facilities, users, cache>>

\* RoomsRepository.get_filtered_by_time: the query is built (without a hotel
\* filter) but never executed and nothing is returned: the call yields None.
get_filtered_by_time(rms, bks, hotel_id, date_from, date_to) ==
    [rows |-> <<>>, is_none |-> TRUE, query_ran |-> FALSE]

\* GET /hotels/{hotel_id}/rooms (api/rooms.py get_rooms)
ApiGetRooms(hotel_id, date_from, date_to) ==
    LET found == get_filtered_by_time(rooms, bookings, hotel_id, date_from, date_to)
    IN  /\ prev' = Store
        /\ last' = SearchRequest
        /\ search' =
              IF date_from >= date_to
              THEN Search("get_rooms", hotel_id, date_from, date_to, <<>>, <<>>, 0, 0,
                          400, <<>>, FALSE, FALSE)
              ELSE Search("get_rooms", hotel_id, date_from, date_to, <<>>, <<>>, 0, 0,
                          200, found.rows, found.query_ran, found.is_none)
        /\ UNCHANGED <<rooms, room_facilities, bookings, next_id, reqs, session, hotels, facilities, users, cache>>

\* RoomService.get_filtered_by_time: hotels.get_one raises ObjectNotFoundException
\* for a missing hotel (status 0: the service produces no response itself).
ServiceGetRooms(hotel_id, date_from, date_to) ==
    LET found == get_filtered_by_time(rooms, bookings, hotel_id, date_from, date_to)
    IN  /\ prev' = Store
        /\ last' = SearchRequest
        /\ search' =
              IF hotel_id \notin HotelIds
              THEN Search("service_get_rooms", hotel_id, date_from, date_to, <<>>, <<>>,
                          0, 0, 0, <<>>, FALSE, FALSE)
              ELSE Search("service_get_rooms", hotel_id, date_from, date_to, <<>>, <<>>,
                          0, 0, 200, found.rows, found.query_ran, found.is_none)
        /\ UNCHANGED <<rooms, room_facilities, bookings, next_id, reqs, session, hotels, facilities, users, cache>>

\* The store of the search specification: room 1 in hotel 1, rooms 2 and 3 in
\* hotel 2, one unit each; bookings are made for one range.
SearchRoomIds == {1, 2, 3}
SearchBookingRange == <<1, 2>>

InitSearch ==
    /\ rooms = [r \in SearchRoomIds |->
                  [hotel_id |-> RoomHotel(r), price |-> RoomPrice(r), quantity |-> 1]]
    /\ room_facilities = {[room_id |-> 1, facility_id |-> 1]}
    /\ bookings = {}
    /\ next_id = 1
    /\ last = NoRequest
    /\ prev = Store
    /\ reqs = [i \in ReqIds |-> IdleReq]
    /\ search = NoSearch
    /\ session = NoSession
    /\ hotels = StoredHotels
    /\ facilities = StoredFacilities
    /\ users = StoredUsers
    /\ cache = {}

NextSearch ==
    \/ \E room_id \in SearchRoomIds, user_id \in UserIds :
          ServiceCreateBooking(room_id, SearchBookingRange[1], SearchBookingRange[2], user_id)
    \/ \E dates \in SearchDates, title \in TitleFilters, location \in LocationFilters,
          page \in 1..MaxPage, per_page \in PerPages :
          SearchHotels(dates[1], dates[2], title, location, page, per_page)
    \/ \E hotel_id \in EditHotelIds, dates \in SearchDates :
          ApiGetRooms(hotel_id, dates[1], dates[2])
    \/ \E hotel_id \in EditHotelIds, dates \in SearchDates :
          ServiceGetRooms(hotel_id, dates[1], dates[2])

SpecSearch == InitSearch /\ [][NextSearch]_vars

(* ---------------------------- response cache --------------------------- *)

\* Date ranges of the cached searches: one meets the bookings made, one does not.
CachedSearchDates == {<<1, 2>>, <<3, 4>>}

\* The cache key of a request: the handler and its arguments.
CacheKey(date_from, date_to) == <<"get_hotels", date_from, date_to>>

\* @cache(expire=10): a stored, unexpired entry for the key exists.
CacheHit(key) == \E e \in cache : e.key = key

\* GET /hotels behind @cache(expire=10), without filters, page 1, per_page
\* omitted: a stored answer for the same arguments is returned without calling
\* the handler; otherwise the handler runs and its answer is stored.
CachedGetHotels(date_from, date_to) ==
    LET key == CacheKey(date_from, date_to)
        available == rooms_ids_for_booking(rooms, bookings, date_from, date_to, NoHotel)
    IN  /\ prev' = Store
        /\ last' = SearchRequest
        /\ IF CacheHit(key)
           THEN /\ search' = Search("cached_get_hotels", NoHotel, date_from, date_to,
                                    <<>>, <<>>, 1, NoPerPage, 200,
                                    (CHOOSE e \in cache : e.key = key).rows, FALSE, FALSE)
                /\ cache' = cache
           ELSE \E room_order \in Orders(available) :
                    \E rows \in Orders(get_hotels_by_time(rooms, room_order, <<>>, <<>>,
                                                          DefaultPerPage, 0)) :
                        /\ search' = Search("cached_get_hotels", NoHotel, date_from,
                                            date_to, <<>>, <<>>, 1, NoPerPage, 200, rows,
                                            TRUE, FALSE)
                        /\ cache' = cache \cup {[key |-> key, rows |-> rows]}
        /\ UNCHANGED <<rooms, room_facilities, bookings, next_id, reqs, session,
                       hotels, facilities, users>>

\* An entry reaches its expiry (10 seconds after it was stored).
CacheExpire(key) ==
    /\ CacheHit(key)
    /\ cache' = {e \in cache : e.key # key}
    /\ UNCHANGED <<rooms, room_facilities, bookings, next_id, last, prev, reqs, search,
                   session, hotels, facilities, users>>

NextCache ==
    \/ \E room_id \in SearchRoomIds, user_id \in UserIds :
          ServiceCreateBooking(room_id, SearchBookingRange[1], SearchBookingRange[2], user_id)
    \/ \E booking_id \in BookingIds : DeleteBooking(booking_id)
    \/ \E dates \in CachedSearchDates : CachedGetHotels(dates[1], dates[2])
    \/ \E dates \in CachedSearchDates : CacheExpire(CacheKey(dates[1], dates[2]))

SpecCache == InitSearch /\ [][NextCache]_vars

(* ------------------- concurrent booking requests ----------------------- *)
\* One POST /bookings per request id, each in its own session.  A step is one
\* awaited database round trip; a session reads the rows committed so far and
\* its own insert becomes visible to the others at its commit.

\* room_data = await db.rooms.get_one(id = booking_data.room_id)
ReqGetRoom(i, room_id, date_from, date_to) ==
    /\ reqs[i].pc = "idle"
    /\ reqs' = [reqs EXCEPT ![i] =
                  IF room_id \notin DOMAIN rooms
                  THEN [@ EXCEPT !.pc = "done", !.room_id = room_id,
                                 !.date_from = date_from, !.date_to = date_to,
                                 !.status = 500]
                  ELSE [@ EXCEPT !.pc = "query", !.room_id = room_id,
                                 !.date_from = date_from, !.date_to = date_to,
                                 !.hotel_id = rooms[room_id].hotel_id,
                                 !.price = rooms[room_id].price]]
    /\ UNCHANGED <<rooms, room_facilities, bookings, next_id, last, prev, search, session, hotels, facilities, users, cache>>

\* add_booking: the availability query and the membership test on its result.
ReqQuery(i) ==
    /\ reqs[i].pc = "query"
    /\ reqs' = [reqs EXCEPT ![i] =
                  IF Admits(rooms, bookings, reqs[i].hotel_id, reqs[i].room_id,
                            reqs[i].date_from, reqs[i].date_to)
                  THEN [@ EXCEPT !.pc = "insert"]
                  ELSE [@ EXCEPT !.pc = "done", !.status = 404]]
    /\ UNCHANGED <<rooms, room_facilities, bookings, next_id, last, prev, search, session, hotels, facilities, users, cache>>

\* add_booking: insert ... returning, not yet committed.
ReqInsert(i) ==
    /\ reqs[i].pc = "insert"
    /\ next_id <= MaxBookings
    /\ reqs' = [reqs EXCEPT ![i] = [@ EXCEPT !.pc = "commit", !.booking_id = next_id]]
    /\ next_id' = next_id + 1
    /\ UNCHANGED <<rooms, room_facilities, bookings, last, prev, search, session, hotels, facilities, users, cache>>

\* await db.session_commit(); return {"status": "OK", ...}
ReqCommit(i, user_id) ==
    /\ reqs[i].pc = "commit"
    /\ bookings' = bookings \cup
          {[id |-> reqs[i].booking_id, room_id |-> reqs[i].room_id, user_id |-> user_id,
            date_from |-> reqs[i].date_from, date_to |-> reqs[i].date_to,
            price |-> reqs[i].price]}
    /\ reqs' = [reqs EXCEPT ![i] = [@ EXCEPT !.pc = "done", !.status = 200]]
    /\ UNCHANGED <<rooms, room_facilities, next_id, last, prev, search, session, hotels, facilities, users, cache>>

NextConc ==
    \/ \E i \in ReqIds, room_id \in RoomIds, rng \in Ranges :
          ReqGetRoom(i, room_id, rng[1], rng[2])
    \/ \E i \in ReqIds : ReqQuery(i)
    \/ \E i \in ReqIds : ReqInsert(i)
    \/ \E i \in ReqIds, user_id \in UserIds : ReqCommit(i, user_id)

SpecConc == Init /\ [][NextConc]_vars

(* ---------------------- concurrent reconciliations ---------------------- *)

\* Targets of the concurrent reconciliations: lists of existing facilities.
ConcTargets == {ListIds(<<>>), ListIds(<<1>>), ListIds(<<2>>), ListIds(<<1, 2>>)}

\* Rows inserted or deleted by the sessions still open, other than session i.
PendingInserted(i) == UNION {reqs[j].inserted : j \in {k \in ReqIds : k # i /\ reqs[k].pc \in {"rec_insert", "rec_commit"}}}
PendingDeleted(i) == UNION {reqs[j].deleted : j \in {k \in ReqIds : k # i /\ reqs[k].pc \in {"rec_insert", "rec_commit"}}}

\* edit_room_with_facilities in session i: the select of the room's committed
\* rows and the two set differences.
RecSelect(i, room_id, facilities_ids) ==
    /\ reqs[i].pc = "idle"
    /\ reqs' = [reqs EXCEPT ![i] =
                  [pc |-> "rec_delete", room_id |-> room_id,
                   target |-> ToSet(facilities_ids.ids),
                   to_delete |-> ids_to_delete(room_facilities, facilities_ids, room_id),
                   to_insert |-> ids_to_insert(room_facilities, facilities_ids, room_id),
                   deleted |-> {}, inserted |-> {}]]
    /\ UNCHANGED <<rooms, room_facilities, bookings, next_id, last, prev, search, session,
                   hotels, facilities, users, cache>>

\* if ids_to_delete: the delete statement.  It removes the committed rows that
\* match when it runs, and waits while another open session has deleted one
\* of them.
RecDelete(i) ==
    LET matching == {row \in room_facilities :
                        /\ row.room_id = reqs[i].room_id
                        /\ row.facility_id \in reqs[i].to_delete}
    IN  /\ reqs[i].pc = "rec_delete"
        /\ reqs[i].to_delete # {} => matching \cap PendingDeleted(i) = {}
        /\ reqs' = [reqs EXCEPT ![i] =
                      [@ EXCEPT !.pc = "rec_insert",
                                !.deleted = IF reqs[i].to_delete # {} THEN matching ELSE {}]]
        /\ UNCHANGED <<rooms, room_facilities, bookings, next_id, last, prev, search,
                       session, hotels, facilities, users, cache>>

\* if ids_to_insert: the insert statement, one row per id of the difference,
\* each with the next value of the id sequence.
RecInsert(i) ==
    LET base == MaxRowId(room_facilities \cup PendingInserted(i))
        ids  == reqs[i].to_insert
        rank(fid) == Cardinality({g \in ids : g <= fid})
    IN  /\ reqs[i].pc = "rec_insert"
        /\ reqs' = [reqs EXCEPT ![i] =
                      [@ EXCEPT !.pc = "rec_commit",
                                !.inserted = {[id |-> base + rank(fid),
                                               room_id |-> reqs[i].room_id,
                                               facility_id |-> fid] : fid \in ids}]]
        /\ UNCHANGED <<rooms, room_facilities, bookings, next_id, last, prev, search,
                       session, hotels, facilities, users, cache>>

\* session_commit of the caller: the session's deletes and inserts become
\* visible to the other sessions.
RecCommit(i) ==
    /\ reqs[i].pc = "rec_commit"
    /\ room_facilities' = (room_facilities \ reqs[i].deleted) \cup reqs[i].inserted
    /\ reqs' = [reqs EXCEPT ![i] = [@ EXCEPT !.pc = "rec_done"]]
    /\ UNCHANGED <<rooms, bookings, next_id, last, prev, search, session, hotels,
                   facilities, users, cache>>

\* Concurrent reconciliations, one per session, interleaved statement by
\* statement.
NextRec ==
    \/ \E i \in ReqIds, room_id \in StoredRooms, facilities_ids \in ConcTargets :
          RecSelect(i, room_id, facilities_ids)
    \/ \E i \in ReqIds : RecDelete(i)
    \/ \E i \in ReqIds : RecInsert(i)
    \/ \E i \in ReqIds : RecCommit(i)

SpecRec == Init /\ [][NextRec]_vars

(* --------------------- concurrent facility creations -------------------- *)

\* Titles of the concurrent create_facility calls: one stored, two new.
ConcTitles == FacilityTitles \cup {"Pool"}

\* FacilityService.create_facility in session i: get_facilities and the
\* comparison of titles; ObjectAlreadyExistsException ends the call.
FacRead(i, title) ==
    /\ reqs[i].pc = "idle"
    /\ reqs' = [reqs EXCEPT ![i] =
                  IF title \in {f.title : f \in facilities}
                  THEN [pc |-> "fac_done", title |-> title, id |-> 0,
                        error |-> "ObjectAlreadyExistsException", status |-> 0]
                  ELSE [pc |-> "fac_add", title |-> title, id |-> 0,
                        error |-> "none", status |-> 0]]
    /\ UNCHANGED <<rooms, room_facilities, bookings, next_id, last, prev, search, session,
                   hotels, facilities, users, cache>>

\* self.db.facilities.add(data): insert ... returning with the next value of
\* the id sequence; the row is not yet committed.
FacAdd(i) ==
    LET taken == {f.id : f \in facilities} \cup
                 {reqs[j].id : j \in {k \in ReqIds : reqs[k].pc \in {"fac_commit", "fac_done"}}}
    IN  /\ reqs[i].pc = "fac_add"
        /\ ~FacilityInsertConflicts(facilities, reqs[i].title)
        /\ reqs' = [reqs EXCEPT ![i] =
                      [@ EXCEPT !.pc = "fac_commit",
                                !.id = CHOOSE n \in 1..(Cardinality(taken) + 1) :
                                          n \notin taken /\ \A m \in taken : m < n]]
        /\ UNCHANGED <<rooms, room_facilities, bookings, next_id, last, prev, search,
                       session, hotels, facilities, users, cache>>

\* self.db.session_commit() and the return of the facility.
FacCommit(i) ==
    /\ reqs[i].pc = "fac_commit"
    /\ facilities' = facilities \cup {[id |-> reqs[i].id, title |-> reqs[i].title]}
    /\ reqs' = [reqs EXCEPT ![i] = [@ EXCEPT !.pc = "fac_done", !.status = 200]]
    /\ UNCHANGED <<rooms, room_facilities, bookings, next_id, last, prev, search, session,
                   hotels, users, cache>>

\* Concurrent create_facility calls, one per session, interleaved statement by
\* statement.
NextFac ==
    \/ \E i \in ReqIds, title \in ConcTitles : FacRead(i, title)
    \/ \E i \in ReqIds : FacAdd(i)
    \/ \E i \in ReqIds : FacCommit(i)

SpecFac == Init /\ [][NextFac]_vars

(* ------------------------------ properties ----------------------------- *)

\* Bookings of bks on room_id whose half-open interval [date_from, date_to)
\* contains day d.
Covering(bks, room_id, d) ==
    {b \in bks : b.room_id = room_id /\ b.date_from <= d /\ d < b.date_to}

\* Bookings of bks on room_id that share at least one night with [date_from, date_to).
SharingNight(bks, room_id, date_from, date_to) ==
    {b \in bks : b.room_id = room_id /\ b.date_from < date_to /\ b.date_to > date_from}

\* Bookings of bks on room_id whose closed interval [b.date_from, b.date_to]
\* meets the closed interval [date_from, date_to].
Touching(bks, room_id, date_from, date_to) ==
    {b \in bks : b.room_id = room_id /\ b.date_from <= date_to /\ b.date_to >= date_from}

CreateOnStoredRoom ==
    last.op = "create_booking" /\ last.room_id \in DOMAIN rooms

Accepted == last.status = 200

\* C1: after every sequence of sequentially executed createBooking and
\* deleteBooking operations, for every room R and day D the number of stored
\* bookings on R whose [date_from, date_to) contains D is at most R.quantity.
CapacityInvariant ==
    \A r \in DOMAIN rooms, d \in Days :
        Cardinality(Covering(bookings, r, d)) <= rooms[r].quantity

\* C1 witness: a booking was just accepted that takes the last unit of a room
\* of quantity 2 on some day.
CapacityReached ==
    /\ CreateOnStoredRoom /\ Accepted
    /\ rooms[last.room_id].quantity = 2
    /\ \E d \in Days : Cardinality(Covering(bookings, last.room_id, d)) = 2

\* C2 (as claimed): under every interleaving of concurrent createBooking
\* requests no room has, in a committed state, more bookings covering a day
\* than its quantity.
ConcurrentCapacityInvariant ==
    \A r \in DOMAIN rooms :
        \A d \in Days :
            Cardinality({b \in bookings : b.room_id = r /\ d \in b.date_from .. (b.date_to - 1)})
                <= rooms[r].quantity

\* C3 (as claimed): when all concurrent createBooking calls target the same
\* room of quantity 1 with the same date range (no booking existed before),
\* then once all have finished exactly one has succeeded, one booking row
\* exists and every other call has failed.  (Which failure the losers carry
\* is the subject of C7 and is left open here: any non-200 outcome counts.)
ExactlyOneConcurrentWinner ==
    (/\ \A i \in ReqIds : reqs[i].pc = "done"
     /\ \A i, j \in ReqIds : /\ reqs[i].room_id = reqs[j].room_id
                             /\ reqs[i].date_from = reqs[j].date_from
                             /\ reqs[i].date_to = reqs[j].date_to
     /\ \A i \in ReqIds : reqs[i].room_id \in DOMAIN rooms
                          /\ rooms[reqs[i].room_id].quantity = 1)
    => /\ Cardinality({i \in ReqIds : reqs[i].status = 200}) = 1
       /\ Cardinality(bookings) = 1
       /\ Cardinality({i \in ReqIds : reqs[i].status # 200}) = NumReq - 1

\* The one booking of the room a create request names, when the room has
\* quantity 1 and held exactly one booking before the request.
SoleBookingCase ==
    /\ CreateOnStoredRoom
    /\ rooms[last.room_id].quantity = 1
    /\ Cardinality({b \in prev.bookings : b.room_id = last.room_id}) = 1

SoleBooking == CHOOSE b \in prev.bookings : b.room_id = last.room_id

QueryRan == last.op = "check_availability" \/ CreateOnStoredRoom

InScope(r) == last.hotel_id = NoHotel \/ rooms[r].hotel_id = last.hotel_id

FreeEveryDay(r, date_from, date_to) ==
    \A d \in date_from .. (date_to - 1) :
        Cardinality(Covering(prev.bookings, r, d)) < rooms[r].quantity

\* C6 (as claimed): the availability query returns a room of the scope iff on
\* every day of [date_from, date_to) fewer than quantity bookings cover the day.
AvailableIffFreeEveryDay ==
    QueryRan =>
        last.result = {r \in DOMAIN rooms :
                          InScope(r) /\ FreeEveryDay(r, last.date_from, last.date_to)}

\* C6 (amended): the availability query returns a room of the scope iff its
\* quantity exceeds the number of its bookings with date_from <= query date_to
\* and date_to >= query date_from; every returned room has a free unit on every
\* day of the range, and no room outside the hotel scope is returned.
AvailableIffCountBelowQuantity ==
    QueryRan =>
        /\ last.result =
              {r \in DOMAIN rooms :
                  /\ InScope(r)
                  /\ Cardinality(Touching(prev.bookings, r, last.date_from, last.date_to))
                        < rooms[r].quantity}
        /\ \A r \in last.result :
              InScope(r) /\ FreeEveryDay(r, last.date_from, last.date_to)

\* C6 witness: a hotel-scoped query returned nothing, the hotel's own room being
\* booked out on a day of the range, although a room of another hotel is free.
ScopedCheckExcludes ==
    /\ QueryRan
    /\ last.hotel_id # NoHotel
    /\ last.result = {}
    /\ \E r \in DOMAIN rooms : InScope(r) /\ ~FreeEveryDay(r, last.date_from, last.date_to)
    /\ \E r \in DOMAIN rooms : ~InScope(r) /\ FreeEveryDay(r, last.date_from, last.date_to)

\* C7 (as claimed): a createBooking rejected for lack of a free unit reaches
\* the caller as AllRoomsBooked, a conflict (409).
RejectionIsConflict ==
    (CreateOnStoredRoom /\ ~Accepted) =>
        (last.error = "AllRoomsAreBookedException" /\ last.status = 409)

\* C8: a createBooking attempt that fails leaves bookings, rooms and facility
\* associations unchanged, so every availability check answers as before.
FailedCreateChangesNothing ==
    (last.op = "create_booking" /\ last.status # 200) =>
        /\ bookings = prev.bookings
        /\ rooms = prev.rooms
        /\ room_facilities = prev.room_facilities
        /\ \A rng \in Ranges, h \in HotelIds \cup {NoHotel} :
              rooms_ids_for_booking(rooms, bookings, rng[1], rng[2], h)
                  = rooms_ids_for_booking(prev.rooms, prev.bookings, rng[1], rng[2], h)

\* C8 witness: a request was rejected for capacity on a store that holds
\* bookings and facility associations.
RejectedOnPopulatedStore ==
    /\ CreateOnStoredRoom
    /\ last.status = 404
    /\ bookings # {}
    /\ room_facilities # {}

DeletedBookings == {b \in prev.bookings : b.id = last.booking_id}

AtCapacity(bks, room_id, rng) ==
    ~Admits(rooms, bks, rooms[room_id].hotel_id, room_id, rng[1], rng[2])

\* C9 (as claimed): if a room is at capacity for a range, deleting one of the
\* bookings that overlap the range makes the room available for that range.
DeleteAlwaysFrees ==
    last.op = "delete_booking" =>
        \A b \in DeletedBookings, rng \in Ranges :
            (b \in SharingNight(prev.bookings, b.room_id, rng[1], rng[2])
             /\ AtCapacity(prev.bookings, b.room_id, rng))
                => ~AtCapacity(bookings, b.room_id, rng)

\* C9 (amended): if exactly quantity bookings of a room meet a range (the room
\* is at capacity with no booking in excess), deleting one of them makes the
\* room available for that range.
DeleteFreesWhenExactlyFull ==
    last.op = "delete_booking" =>
        \A b \in DeletedBookings, rng \in Ranges :
            (b \in Touching(prev.bookings, b.room_id, rng[1], rng[2])
             /\ Cardinality(Touching(prev.bookings, b.room_id, rng[1], rng[2]))
                   = rooms[b.room_id].quantity)
                => b.room_id \in rooms_ids_for_booking(rooms, bookings, rng[1], rng[2], NoHotel)

\* C9 witness: a booking of a full quantity-2 room was deleted and the room is
\* available again for a range the deleted booking met.
DeletedFromFullRoom ==
    /\ last.op = "delete_booking"
    /\ \E b \in DeletedBookings, rng \in Ranges :
          /\ rooms[b.room_id].quantity = 2
          /\ b \in Touching(prev.bookings, b.room_id, rng[1], rng[2])
          /\ Cardinality(Touching(prev.bookings, b.room_id, rng[1], rng[2])) = 2
          /\ b \notin bookings
          /\ b.room_id \in rooms_ids_for_booking(rooms, bookings, rng[1], rng[2], NoHotel)

\* C10 (as claimed): createBooking for a room id that is not stored fails with
\* RoomNotFound, a 404 when a response is produced, and adds no booking.
MissingRoomIsNotFound ==
    (last.op = "create_booking" /\ last.room_id \notin DOMAIN rooms) =>
        /\ last.error = "RoomNotFoundException"
        /\ last.status \in {0, 404}
        /\ bookings = prev.bookings

\* C11: a successful createBooking adds exactly one booking row carrying the
\* requested room, user and dates and the room's price at request time, and
\* changes no other booking; a later edit of the room's price leaves the price
\* of every existing booking unchanged.
CreateAddsOneRowEditKeepsPrices ==
    /\ (CreateOnStoredRoom /\ Accepted) =>
          /\ bookings = prev.bookings \cup
                {[id |-> last.booking_id, room_id |-> last.room_id,
                  user_id |-> last.user_id, date_from |-> last.date_from,
                  date_to |-> last.date_to, price |-> prev.rooms[last.room_id].price]}
          /\ Cardinality(bookings) = Cardinality(prev.bookings) + 1
    /\ last.op = "rooms_edit" => bookings = prev.bookings

\* C11 witness: a booking was accepted at the edited price of a room that
\* still holds a booking made, by another user, at the price before the edit.
BookedBeforeAndAfterPriceEdit ==
    /\ CreateOnStoredRoom /\ Accepted
    /\ rooms[last.room_id].price \in EditPrices
    /\ \E b1, b2 \in bookings :
          /\ b1.room_id = last.room_id /\ b1.price = RoomPrice(b1.room_id)
          /\ b2.id = last.booking_id /\ b2.price = rooms[last.room_id].price
          /\ b1.price # b2.price
          /\ b1.user_id # b2.user_id

\* The facilities associated with a room in the committed store.
Associated(room_id) == current_facilities_ids(room_facilities, room_id)

AssociatedBefore(room_id) == current_facilities_ids(prev.room_facilities, room_id)

\* The most recent room edit was a reconciliation that returned and carried a list.
ReconciledWithList ==
    /\ session.op = "reconcile"
    /\ session.error = "none"
    /\ ~session.facilities_ids.is_none

\* C12: after reconcileRoomFacilities(room, target) with a given (non-omitted)
\* target list, the set of facilities associated with that room equals the set
\* of ids in target, and the associations of every other room are unchanged.
ReconcileReachesTarget ==
    /\ ReconciledWithList =>
          Associated(session.room_id) = ToSet(session.facilities_ids.ids)
    /\ session.op = "reconcile" =>
          \A r \in RoomIds \ {session.room_id} : Associated(r) = AssociatedBefore(r)

\* C12 witness: a reconciliation replaced one facility of a room by another
\* (one delete, one insert) while another room keeps its own associations.
ReconcileSwappedFacility ==
    /\ ReconciledWithList
    /\ session.stmts = <<"delete", "insert">>
    /\ AssociatedBefore(session.room_id) # {}
    /\ Associated(session.room_id) # {}
    /\ Associated(session.room_id) \cap AssociatedBefore(session.room_id) = {}
    /\ \E r \in RoomIds \ {session.room_id} : Associated(r) # {}

\* C13: reconciliation is idempotent: calling reconcileRoomFacilities twice in
\* a row with the same target leaves the room's associations equal to the
\* target and the second call issues no delete and no insert statement.
ReconcileIdempotent ==
    (ReconciledWithList /\ session.again) =>
        /\ Associated(session.room_id) = ToSet(session.facilities_ids.ids)
        /\ session.stmts = <<>>
        /\ room_facilities = prev.room_facilities

\* C13 witness: the second of two reconciliations in a row to a target of two
\* facilities, on the room that started with one of them.
ReconcileRepeated ==
    /\ ReconciledWithList /\ session.again
    /\ session.room_id = 1
    /\ Cardinality(ToSet(session.facilities_ids.ids)) = 2
    /\ Cardinality(Associated(session.room_id)) = 2

\* The most recent room edit went through RoomService for a stored room of the
\* hotel it names.
ServiceEditOfStoredRoom ==
    /\ session.op \in {"edit_room", "edit_room_partially"}
    /\ session.room_id \in DOMAIN prev.rooms
    /\ prev.rooms[session.room_id].hotel_id = session.hotel_id

\* C14 (as claimed): on both the edit_room and the edit_room_partially path,
\* with facilities_ids omitted (None) the room's associations are left
\* untouched and nothing is written to them; with an explicit empty list every
\* association of the room is removed.
OmittedKeepsEmptyClears ==
    ServiceEditOfStoredRoom =>
        /\ (~session.given \/ session.facilities_ids.is_none) =>
              /\ room_facilities = prev.room_facilities
              /\ session.stmts = <<>>
        /\ (session.given /\ session.facilities_ids = ListIds(<<>>)) =>
              Associated(session.room_id) = {}

\* The room's facilities when the reconciliation in session started, and the
\* set it is to reach (its old set when facilities_ids is None).
TxOld == current_facilities_ids(prev.room_facilities, session.room_id)

TxTarget ==
    IF session.facilities_ids.is_none THEN TxOld ELSE ToSet(session.facilities_ids.ids)

\* C15: the delete and the insert of one facility reconciliation take effect
\* together or not at all: no committed state, and no state visible to another
\* request, has the room's association set different from both its old set and
\* the target set, and if the insert fails the delete is not persisted.
ReconcileAllOrNothing ==
    session.op = "reconcile_tx" =>
        /\ Associated(session.room_id) \in {TxOld, TxTarget}
        /\ (last.op = "observe" /\ last.room_id = session.room_id) =>
              last.result \in {TxOld, TxTarget}
        /\ ~session.committed => room_facilities = prev.room_facilities
        /\ session.error # "none" => room_facilities = prev.room_facilities
        /\ (session.committed /\ ~session.facilities_ids.is_none) =>
              Associated(session.room_id) = TxTarget

\* C15 witness: the insert of a reconciliation failed after its delete had
\* emptied the room in the session's view; a request that read the room in
\* between saw the old facilities, and the old facilities are what is stored
\* after the session ended.
FailedInsertAfterDelete ==
    /\ session.op = "reconcile_tx" /\ session.pc = "done"
    /\ session.stmts = <<"delete", "insert">>
    /\ session.error = "IntegrityError"
    /\ TxOld # {}
    /\ session.to_delete = TxOld
    /\ last.op = "observe" /\ last.room_id = session.room_id
    /\ last.during = "insert"
    /\ last.result = TxOld
    /\ Associated(session.room_id) = TxOld

\* The most recent request was a hotel search that returned a page.
HotelSearchDone ==
    last.op = "search" /\ search.op = "search_hotels" /\ search.status = 200

\* The rooms available for the range of the most recent search.
SearchAvailable ==
    rooms_ids_for_booking(rooms, bookings, search.date_from, search.date_to, NoHotel)

LowerText(text) == [i \in DOMAIN text |-> Lower(text[i])]

\* filter occurs in text as a substring, case-insensitively.
ContainsText(text, filter) ==
    \E i \in 0..(Len(text) - Len(filter)) :
        SubSeq(LowerText(text), i + 1, i + Len(filter)) = LowerText(filter)

\* The limit of the most recent hotel search.
SearchLimit == IF search.per_page = NoPerPage THEN DefaultPerPage ELSE search.per_page

RowSet(rows) == {rows[i] : i \in DOMAIN rows}

\* C16 (as claimed): searchHotels with a limit large enough to cover all
\* results returns exactly the hotels that own at least one available room
\* for the range and whose title contains the title filter and whose
\* location contains the location filter, case-insensitively.
HotelSearchReturnsMatching ==
    (HotelSearchDone /\ search.page = 1 /\ SearchLimit >= Cardinality(DOMAIN rooms)) =>
        RowSet(search.rows) =
            {h \in HotelIds :
                /\ \E r \in SearchAvailable : rooms[r].hotel_id = h
                /\ ContainsText(HotelTitle(h), search.title)
                /\ ContainsText(HotelLocation(h), search.location)}

\* The hotels that own an available room and pass the filters of the most
\* recent search as the query applies them.
MatchingHotels ==
    {h \in HotelIds :
        /\ \E r \in SearchAvailable : rooms[r].hotel_id = h
        /\ HotelPassesFilters(h, search.title, search.location)}

Ascending(S) ==
    CHOOSE f \in Orders(S) : \A i, j \in DOMAIN f : i < j => f[i] < f[j]

\* C17 (as claimed): searchHotels pages over hotels in ascending identifier
\* order: page p with per_page n returns exactly the hotels at positions
\* (p-1)*n .. p*n-1 of the ordered list of matching hotels.
PageIsSliceOfOrderedHotels ==
    HotelSearchDone =>
        search.rows = LimitOffset(Ascending(MatchingHotels), SearchLimit,
                                  SearchLimit * (search.page - 1))

\* The most recent request was a room search that returned normally.
RoomSearchDone ==
    last.op = "search" /\ search.op \in {"get_rooms", "service_get_rooms"}
                       /\ search.status = 200

\* C18 (as claimed): searchRooms(hotelId, date_from, date_to) returns exactly
\* the rooms that belong to hotelId and are in the available set for the
\* range.
RoomSearchReturnsAvailableRoomsOfHotel ==
    RoomSearchDone =>
        /\ ~search.is_none
        /\ RowSet(search.rows) =
               rooms_ids_for_booking(rooms, bookings, search.date_from, search.date_to,
                                     search.hotel_id)

\* C20 (as claimed): a hotel search or a room search with date_from >= date_to
\* is rejected with status 422 and runs no availability query; with
\* date_from < date_to it succeeds with status 200.
SearchDatesValidated ==
    (last.op = "search" /\ search.op \in {"search_hotels", "get_rooms"}) =>
        IF search.date_from >= search.date_to
        THEN search.status = 422 /\ ~search.query_ran
        ELSE search.status = 200

\* The most recent request was a booking request with date_from >= date_to.
InvertedBookingRequest ==
    last.op = "create_booking" /\ last.date_from >= last.date_to

InvertedRangeCountsNoBooking ==
    (last.op = "rooms_ids_for_booking" /\ last.date_from >= last.date_to) =>
        last.result = {r \in rooms_ids_for_hotel(rooms, last.hotel_id) :
                          rooms[r].quantity > 0}

\* The most recent request was delete_room on a stored room that a booking
\* referenced.
DeleteOfBookedRoom ==
    /\ last.op = "delete_room"
    /\ last.room_id \in DOMAIN prev.rooms
    /\ \E b \in prev.bookings : b.room_id = last.room_id

\* C22 (as claimed): delete_room on a room referenced by a booking fails and
\* removes neither the room nor any booking; every stored booking references
\* a room that exists.
BookedRoomDeleteFails ==
    /\ \A b \in bookings : b.room_id \in DOMAIN rooms
    /\ DeleteOfBookedRoom => (last.error # "none" /\ Store = prev)

\* C22 (amended): delete_room on a room referenced by a booking removes
\* neither the room nor any booking; it fails when the path names the room's
\* own hotel or a missing hotel, and reports success, deleting nothing, when
\* the path names another stored hotel.  Every stored booking references a
\* room that exists.
BookedRoomIsNotDeleted ==
    /\ \A b \in bookings : b.room_id \in DOMAIN rooms
    /\ DeleteOfBookedRoom =>
          /\ Store = prev
          /\ last.error =
                IF last.hotel_id \notin HotelIds THEN "HotelNotFoundException"
                ELSE IF prev.rooms[last.room_id].hotel_id = last.hotel_id
                     THEN "IntegrityError"
                     ELSE "none"

\* C22 witness: the delete of room 2 of hotel 2 was refused while a booking
\* referenced it (room 2 has no facility association, so the booking alone
\* holds it back), with the path naming the room's own hotel.
DeleteRefusedByBooking ==
    /\ DeleteOfBookedRoom
    /\ last.room_id = 2 /\ last.hotel_id = 2
    /\ last.error = "IntegrityError"

\* C23 (as claimed): creating a facility with the title of an existing
\* facility, or registering a user with the email of an existing user, fails
\* with status 409 and adds no row; the first creation with that title or
\* email succeeds with status 200 and adds one row.
DuplicateGives409 ==
    /\ last.op = "create_facility" =>
          IF last.key \in {f.title : f \in prev.facilities}
          THEN last.status = 409 /\ facilities = prev.facilities
          ELSE last.status = 200 /\ Cardinality(facilities) = Cardinality(prev.facilities) + 1
    /\ last.op = "register_user" =>
          IF last.key \in {u.email : u \in prev.users}
          THEN last.status = 409 /\ users = prev.users
          ELSE last.status = 200 /\ Cardinality(users) = Cardinality(prev.users) + 1

\* C24 (as claimed): full edit, partial edit and delete of a hotel id that does
\* not exist each fail with status 404 and leave the store unchanged; deleting
\* a stored hotel that no room references succeeds.
MissingHotelGives404 ==
    last.op \in {"put_hotel", "patch_hotel", "delete_hotel"} =>
        IF last.key \notin DOMAIN prev.hotels
        THEN last.status = 404 /\ Catalog = prev
        ELSE (last.op = "delete_hotel" /\ ~HotelIsReferenced(rooms, last.key)) =>
                 (last.status = 200 /\ last.key \notin DOMAIN hotels)

\* C25 (as claimed): every answer of the hotel search reflects all bookings
\* created or deleted and committed before the call started: the hotels
\* returned are those owning a room available in the current booking set.
SearchReflectsCurrentBookings ==
    (last.op = "search" /\ search.op = "cached_get_hotels") =>
        RowSet(search.rows) = {rooms[r].hotel_id : r \in SearchAvailable}

\* The rows of room_facilities for a room and a set of facility ids.
PairRows(room_id, ids) == {[room_id |-> room_id, facility_id |-> fid] : fid \in ids}

HasStmt(stmts, kind) == \E i \in DOMAIN stmts : stmts[i] = kind

\* C26: facility reconciliation writes the minimal diff: a delete statement is
\* issued iff current - target is non-empty and an insert statement iff
\* target - current is non-empty; when it returns, the rows removed are
\* exactly those of current - target and the rows added exactly those of
\* target - current, so an association in both is neither deleted nor
\* re-inserted.
ReconcileWritesMinimalDiff ==
    (session.op = "reconcile" /\ ~session.facilities_ids.is_none) =>
        LET room_id == session.room_id
            current == AssociatedBefore(room_id)
            target == ToSet(session.facilities_ids.ids)
        IN  /\ HasStmt(session.stmts, "delete") <=> (current \ target # {})
            /\ HasStmt(session.stmts, "insert") <=> (target \ current # {})
            /\ session.error = "none" =>
                  /\ prev.room_facilities \ room_facilities = PairRows(room_id, current \ target)
                  /\ room_facilities \ prev.room_facilities = PairRows(room_id, target \ current)

\* C26 witness: a reconciliation that kept one association, added another and
\* issued the insert statement only.
ReconcileKeptAndAdded ==
    /\ ReconciledWithList
    /\ session.stmts = <<"insert">>
    /\ AssociatedBefore(session.room_id) # {}
    /\ AssociatedBefore(session.room_id) \subseteq Associated(session.room_id)
    /\ Associated(session.room_id) # AssociatedBefore(session.room_id)

\* C27 (as claimed): after any sequence of createBooking, deleteBooking,
\* edit_room and edit_room_partially operations, no room has more bookings
\* covering some day than its current quantity.
CapacitySurvivesEdits ==
    \A r \in DOMAIN rooms : \A d \in Days :
        Cardinality(Covering(bookings, r, d)) <= rooms[r].quantity

\* C28 (as claimed): a room's facility associations form a set: after any
\* sequence of room creations and edits, including calls whose facilities_ids
\* list repeats an id, there are never two room_facilities rows with the same
\* (room_id, facility_id) pair.
NoDuplicateAssociations ==
    \A r1 \in room_facilities : \A r2 \in room_facilities :
        (r1.room_id = r2.room_id /\ r1.facility_id = r2.facility_id) => r1 = r2

\* Both sessions have committed a reconciliation of the same room.
BothReconciled ==
    /\ \A i \in ReqIds : reqs[i].pc = "rec_done"
    /\ \A i \in ReqIds : reqs[i].room_id = reqs[1].room_id

\* C29 (as claimed): two concurrent reconciliations of the same room with
\* targets T1 and T2 behave as if run one after the other: once both have
\* committed, the room's rows are exactly T1 or exactly T2, with no
\* duplicate (room_id, facility_id) row.
ConcurrentReconcileSerializable ==
    BothReconciled =>
        LET rows == {row \in room_facilities : row.room_id = reqs[1].room_id}
        IN  /\ \E i \in ReqIds : {row.facility_id : row \in rows} = reqs[i].target
            /\ \A r1 \in rows : \A r2 \in rows :
                   r1.facility_id = r2.facility_id => r1 = r2

\* Every session has finished a create_facility call for the same title,
\* which no facility carried before the calls.
AllCreatedSameNewTitle ==
    /\ \A i \in ReqIds : reqs[i].pc = "fac_done"
    /\ \A i \in ReqIds : reqs[i].title = reqs[1].title
    /\ reqs[1].title \notin {f.title : f \in StoredFacilities}

\* C30 (as claimed): facility titles stay unique under concurrency: under
\* every interleaving of concurrent create_facility calls no two stored
\* facilities share a title, and of several concurrent calls with the same
\* new title exactly one succeeds.
ConcurrentTitlesUnique ==
    /\ \A f1 \in facilities : \A f2 \in facilities : f1.title = f2.title => f1 = f2
    /\ AllCreatedSameNewTitle =>
           Cardinality({i \in ReqIds : reqs[i].status = 200}) = 1

====
